---- MODULE Spec2Model ----
(***************************************************************************)
(* ShareFileLeaseClient (azure/storage/fileshare/_lease.py): a client-side *)
(* lease handle holding id, etag and last_modified, with the operations    *)
(* acquire, release, change, break_lease and the scope protocol            *)
(* __enter__/__exit__, over one file of the File service.                  *)
(*                                                                         *)
(* Python's None is the empty tuple; a present value x is <<x>>.           *)
(***************************************************************************)
EXTENDS Integers, Sequences, FiniteSets, TLC

VARIABLES
    handle,     \* handle[h]: the fields of ShareFileLeaseClient object h
    scope,      \* scope[h]: "out" or "in" (between __enter__ and __exit__)
    file,       \* the file's lease state held by the File service
    ctor,       \* ctor[h]: the id h was constructed with, and whether uuid4 made it
    last,       \* the call that was made last, with its outcome
    trace,      \* the remote calls made so far, while one handle made them all
    thread,     \* thread[c]: where caller c is inside a call on the shared object
    config      \* the construction of a MediaServicesManagementClientConfiguration

vars == <<handle, scope, file, ctor, last, trace, thread, config>>

---------------------------------------------------------------------------
(* Bounds *)

\* Number of changes the service applies to the file's lease.
MaxRev == 3

\* Length up to which the calls of a single caller are recorded.
MaxTrace == 3

---------------------------------------------------------------------------
(* Values *)

\* Two ShareFileLeaseClient objects bound to the same file.
Handles == {1, 2}

None == <<>>

Some(x) == <<x>>

\* The value of str(uuid.uuid4()) drawn while constructing object h: every
\* call of uuid4 gives a value no other call gives.
Uuid(h) == "uuid" \o ToString(h)

\* A lease ID the service generates when the request proposes none.
ServerId(n) == "srv" \o ToString(n)

\* A proposed lease ID that is not in GUID format.
InvalidId == "not-a-guid"

\* The lease IDs of existing leases a caller may pass to the constructor.
\* (None and "" stand for the argument being omitted or empty.)
SuppliedIds == {None, Some(""), Some("lease-A")}

\* The identifiers a caller may pass to change().
ProposedIds == {Some("lease-B"), Some(InvalidId)}

\* A client may or may not be a ShareFileClient (hasattr(client, 'file_name')).
Clients == {"ShareFileClient", "ShareClient"}

\* How the transport treats one request: delivered, answered with an error
\* status unrelated to the lease (StorageErrorException), or failed below HTTP
\* (time-out, connection error: not a StorageErrorException).
Nets == {"ok", "storage", "other"}

ETag(n) == <<"etag", n>>

Time(n) == <<"time", n>>

NoHeaders == [lease_id |-> None, etag |-> None, last_modified |-> None, lease_time |-> None]

NoFields == [id |-> None, etag |-> None, last_modified |-> None]

---------------------------------------------------------------------------
(* The File service and the generated transport (self._client)            *)

IsGuid(id) == id # Some(InvalidId)

Answer(f, hd) == [raised |-> "none", code |-> "", file |-> f, headers |-> hd]

Raise(f, kind, code) == [raised |-> kind, code |-> code, file |-> f, headers |-> NoHeaders]

Faulty(f, net) ==
    IF net = "storage"
    THEN Raise(f, "StorageErrorException", "ServerError")
    ELSE Raise(f, "ServiceRequestError", "")

\* self._client.acquire_lease(duration=-1, proposed_lease_id=...)
acquire_lease(f, proposed, net) ==
    IF net # "ok" THEN Faulty(f, net)
    ELSE IF f.state = "Leased" /\ proposed # f.lease_id
    THEN Raise(f, "StorageErrorException", "LeaseAlreadyPresent")
    ELSE LET id == IF proposed = None THEN Some(ServerId(f.rev + 1)) ELSE proposed
             g  == [state |-> "Leased", lease_id |-> id, rev |-> f.rev + 1]
         IN  Answer(g, [lease_id |-> id, etag |-> ETag(g.rev),
                        last_modified |-> Time(g.rev), lease_time |-> None])

\* self._client.release_lease(lease_id=...); echo: whether the response
\* carries a lease_id header.
release_lease(f, lease_id, net, echo) ==
    IF net # "ok" THEN Faulty(f, net)
    ELSE IF f.state # "Leased"
    THEN Raise(f, "StorageErrorException", "LeaseNotPresent")
    ELSE IF lease_id # f.lease_id
    THEN Raise(f, "StorageErrorException", "LeaseIdMismatch")
    ELSE LET g == [state |-> "Unleased", lease_id |-> None, rev |-> f.rev + 1]
         IN  Answer(g, [lease_id |-> IF echo THEN lease_id ELSE None,
                        etag |-> ETag(g.rev), last_modified |-> Time(g.rev),
                        lease_time |-> None])

\* self._client.change_lease(lease_id=..., proposed_lease_id=...)
change_lease(f, lease_id, proposed, net) ==
    IF net # "ok" THEN Faulty(f, net)
    ELSE IF ~IsGuid(proposed)
    THEN Raise(f, "StorageErrorException", "InvalidHeaderValue")
    ELSE IF f.state # "Leased"
    THEN Raise(f, "StorageErrorException", "LeaseNotPresent")
    ELSE IF lease_id # f.lease_id
    THEN Raise(f, "StorageErrorException", "LeaseIdMismatch")
    ELSE LET g == [state |-> "Leased", lease_id |-> proposed, rev |-> f.rev + 1]
         IN  Answer(g, [lease_id |-> proposed, etag |-> ETag(g.rev),
                        last_modified |-> Time(g.rev), lease_time |-> None])

\* self._client.break_lease(); an infinite lease breaks immediately.
break_lease_request(f, net) ==
    IF net # "ok" THEN Faulty(f, net)
    ELSE IF f.state = "Leased"
    THEN LET g == [state |-> "Broken", lease_id |-> f.lease_id, rev |-> f.rev + 1]
         IN  Answer(g, [lease_id |-> None, etag |-> ETag(g.rev),
                        last_modified |-> Time(g.rev), lease_time |-> Some(0)])
    ELSE Answer(f, [lease_id |-> None, etag |-> ETag(f.rev),
                    last_modified |-> Time(f.rev), lease_time |-> Some(0)])

\* process_storage_error(error): raises the translated error, never returns.
process_storage_error(raised) == "DomainLeaseError"

---------------------------------------------------------------------------
(* ShareFileLeaseClient                                                    *)

\* A faulty variant of NewId: the uuid is drawn once for all objects (a default argument
\* evaluated at definition time).
NewIdShared(lease_id, uuid4) ==
    IF lease_id = None \/ lease_id = Some("") THEN Some(Uuid(0)) ELSE lease_id

\* self.id = lease_id or str(uuid.uuid4())
NewId(lease_id, uuid4) ==
    IF lease_id = None \/ lease_id = Some("") THEN Some(uuid4) ELSE lease_id

\* A faulty variant of Caught: a bare except.
CaughtAll(raised) == TRUE

\* except StorageErrorException as error:
Caught(raised) == raised = "StorageErrorException"

\* How a call ends given what the transport call raised.
Outcome(raised) ==
    IF raised = "none" THEN "returned"
    ELSE IF Caught(raised) THEN process_storage_error(raised)
    ELSE raised

\* A faulty variant of AcquireFields: the id is not taken from the response.
AcquireFieldsKeepId(self, response) ==
    [self EXCEPT !.last_modified = response.last_modified,
                 !.etag = response.etag]

\* The field writes that follow the try block of acquire.
AcquireFields(self, response) ==
    [self EXCEPT !.id = response.lease_id,
                 !.last_modified = response.last_modified,
                 !.etag = response.etag]

\* A faulty variant of ReleaseFields: last_modified is not written.
ReleaseFieldsPartial(self, response) ==
    [self EXCEPT !.etag = response.etag,
                 !.id = response.lease_id]

\* A faulty variant of ReleaseFields: only the id is written.
ReleaseFieldsIdOnly(self, response) ==
    [self EXCEPT !.id = response.lease_id]

\* The field writes that follow the try block of release.
ReleaseFields(self, response) ==
    [self EXCEPT !.etag = response.etag,
                 !.id = response.lease_id,
                 !.last_modified = response.last_modified]

\* A faulty variant of ChangeFields: the id is not taken from the response.
ChangeFieldsKeepId(self, response) ==
    [self EXCEPT !.etag = response.etag,
                 !.last_modified = response.last_modified]

\* The field writes that follow the try block of change.
ChangeFields(self, response) ==
    [self EXCEPT !.etag = response.etag,
                 !.id = response.lease_id,
                 !.last_modified = response.last_modified]

Request(name, lease_id, proposed) ==
    [name |-> name, lease_id |-> lease_id, proposed_lease_id |-> proposed]

Call(h, op, arg, body, r, result, ret, reqs) ==
    [h |-> h, op |-> op, arg |-> arg, client |-> "", body |-> body, raised |-> r.raised,
     code |-> r.code, headers |-> r.headers, result |-> result, ret |-> ret,
     reqs |-> reqs]

NoAnswer == [raised |-> "none", code |-> "", headers |-> NoHeaders]

Off == <<[h |-> 0, name |-> "off", result |-> "", code |-> ""]>>

\* The record of remote calls: kept while every call was an acquire or a
\* release that the transport delivered, one handle made them all and there
\* are at most MaxTrace of them.
Track(t, h, name, net, result, code) ==
    IF t = Off \/ net # "ok" \/ Len(t) >= MaxTrace
       \/ name \notin {"acquire_lease", "release_lease"}
       \/ (Len(t) > 0 /\ t[1].h # h)
    THEN Off
    ELSE Append(t, [h |-> h, name |-> name, result |-> result, code |-> code])

\* Two callers (threads) that may hold a reference to the same object.
Callers == {"t1", "t2"}

\* A caller that is not inside a call.
Idle == [op |-> "none", at |-> 0, response |-> NoHeaders]

\* No MediaServicesManagementClientConfiguration is being constructed.
NoConfig == [pc |-> "none"]

Init ==
    /\ handle = [h \in Handles |-> [st |-> "none"] @@ NoFields]
    /\ scope = [h \in Handles |-> "out"]
    /\ file = [state |-> "Unleased", lease_id |-> None, rev |-> 0]
    /\ ctor = [h \in Handles |-> [generated |-> FALSE, id |-> None]]
    /\ last = Call(0, "none", None, "none", NoAnswer, "returned", None, <<>>)
    /\ trace = <<>>
    /\ thread = [c \in Callers |-> Idle]
    /\ config = NoConfig

\* A faulty variant of HasFileName: the client's type is not looked at.
HasFileNameAlways(client) == TRUE

\* hasattr(client, 'file_name')
HasFileName(client) == client = "ShareFileClient"

\* ShareFileLeaseClient(client, lease_id): the fields are set, then a client
\* without file_name gets TypeError and no object comes to exist.
__init__(h, client, lease_id) ==
    /\ handle[h].st = "none"
    /\ LET id == NewId(lease_id, Uuid(h))
           ok == HasFileName(client)
       IN  /\ handle' = [handle EXCEPT ![h] =
                  IF ok THEN [st |-> "ok", id |-> id, etag |-> None, last_modified |-> None]
                  ELSE @]
           /\ ctor' = [ctor EXCEPT ![h] =
                  IF ok THEN [generated |-> id # lease_id, id |-> id] ELSE @]
           /\ last' = [Call(h, "__init__", lease_id, "none", NoAnswer,
                            IF ok THEN "returned" ELSE "TypeError", None, <<>>)
                          EXCEPT !.client = client]
    /\ UNCHANGED <<scope, file, trace, thread, config>>

\* A faulty variant of AcquireEffect: a failed request is sent once more.
AcquireEffectRetry(self, f, net) ==
    LET r1 == acquire_lease(f, self.id, net)
        r  == IF r1.raised = "none" THEN r1 ELSE acquire_lease(f, self.id, "ok")
        rq == Request("acquire_lease", self.id, self.id)
    IN  [r |-> r,
         self |-> IF r.raised = "none" THEN AcquireFields(self, r.headers) ELSE self,
         result |-> Outcome(r.raised),
         reqs |-> IF r1.raised = "none" THEN <<rq>> ELSE <<rq, rq>>]

\* A faulty variant of AcquireEffect: proposed_lease_id is not passed.
AcquireEffectNoProposal(self, f, net) ==
    LET r == acquire_lease(f, None, net)
    IN  [r |-> r,
         self |-> IF r.raised = "none" THEN AcquireFields(self, r.headers) ELSE self,
         result |-> Outcome(r.raised),
         reqs |-> <<Request("acquire_lease", None, None)>>]

\* What one call of acquire does to the object self, the file being f.
AcquireEffect(self, f, net) ==
    LET r == acquire_lease(f, self.id, net)
    IN  [r |-> r,
         self |-> IF r.raised = "none" THEN AcquireFields(self, r.headers) ELSE self,
         result |-> Outcome(r.raised),
         reqs |-> <<Request("acquire_lease", self.id, self.id)>>]

\* A faulty variant of ReleaseEffect: a StorageErrorException is swallowed and release
\* returns normally.
ReleaseEffectSwallow(self, f, net, echo) ==
    LET r == release_lease(f, self.id, net, echo)
    IN  [r |-> r,
         self |-> IF r.raised = "none" THEN ReleaseFields(self, r.headers) ELSE self,
         result |-> IF Caught(r.raised) THEN "returned" ELSE Outcome(r.raised),
         reqs |-> <<Request("release_lease", self.id, None)>>]

\* What one call of release does to the object self.
ReleaseEffect(self, f, net, echo) ==
    LET r == release_lease(f, self.id, net, echo)
    IN  [r |-> r,
         self |-> IF r.raised = "none" THEN ReleaseFields(self, r.headers) ELSE self,
         result |-> Outcome(r.raised),
         reqs |-> <<Request("release_lease", self.id, None)>>]

\* A faulty variant of ChangeEffect: self.id is set to the proposed id before the call.
ChangeEffectEager(self, f, proposed, net) ==
    LET r == change_lease(f, self.id, proposed, net)
    IN  [r |-> r,
         self |-> IF r.raised = "none" THEN ChangeFields(self, r.headers)
                  ELSE [self EXCEPT !.id = proposed],
         result |-> Outcome(r.raised),
         reqs |-> <<Request("change_lease", self.id, proposed)>>]

\* What one call of change(proposed_lease_id) does to the object self.
ChangeEffect(self, f, proposed, net) ==
    LET r == change_lease(f, self.id, proposed, net)
    IN  [r |-> r,
         self |-> IF r.raised = "none" THEN ChangeFields(self, r.headers) ELSE self,
         result |-> Outcome(r.raised),
         reqs |-> <<Request("change_lease", self.id, proposed)>>]

\* A faulty variant of BreakEffect: the fields are refreshed from the response.
BreakEffectUpdating(self, f, net) ==
    LET r == break_lease_request(f, net)
    IN  [r |-> r,
         self |-> IF r.raised = "none" THEN ChangeFields(self, r.headers) ELSE self,
         result |-> Outcome(r.raised),
         ret |-> IF r.raised = "none" THEN r.headers.lease_time ELSE None,
         reqs |-> <<Request("break_lease", None, None)>>]

\* A faulty variant of BreakEffect: the return statement is missing.
BreakEffectNoReturn(self, f, net) ==
    LET r == break_lease_request(f, net)
    IN  [r |-> r,
         self |-> self,
         result |-> Outcome(r.raised),
         ret |-> None,
         reqs |-> <<Request("break_lease", None, None)>>]

\* What one call of break_lease does: the fields are left alone and
\* response.get('lease_time') is returned.
BreakEffect(self, f, net) ==
    LET r == break_lease_request(f, net)
    IN  [r |-> r,
         self |-> self,
         result |-> Outcome(r.raised),
         ret |-> IF r.raised = "none" THEN r.headers.lease_time ELSE None,
         reqs |-> <<Request("break_lease", None, None)>>]

Usable(h) == handle[h].st = "ok" /\ file.rev < MaxRev

\* lease.acquire()
acquire(h, net) ==
    /\ Usable(h)
    /\ LET e == AcquireEffect(handle[h], file, net)
       IN  /\ handle' = [handle EXCEPT ![h] = e.self]
           /\ file' = e.r.file
           /\ last' = Call(h, "acquire", None, "none", e.r, e.result, None, e.reqs)
           /\ trace' = Track(trace, h, "acquire_lease", net, e.result, e.r.code)
    /\ UNCHANGED <<scope, ctor, thread, config>>

\* lease.release()
release(h, net, echo) ==
    /\ Usable(h)
    /\ LET e == ReleaseEffect(handle[h], file, net, echo)
       IN  /\ handle' = [handle EXCEPT ![h] = e.self]
           /\ file' = e.r.file
           /\ last' = Call(h, "release", None, "none", e.r, e.result, None, e.reqs)
           /\ trace' = Track(trace, h, "release_lease", net, e.result, e.r.code)
    /\ UNCHANGED <<scope, ctor, thread, config>>

\* lease.change(proposed_lease_id)
change(h, proposed, net) ==
    /\ Usable(h)
    /\ LET e == ChangeEffect(handle[h], file, proposed, net)
       IN  /\ handle' = [handle EXCEPT ![h] = e.self]
           /\ file' = e.r.file
           /\ last' = Call(h, "change", proposed, "none", e.r, e.result, None, e.reqs)
           /\ trace' = Track(trace, h, "change_lease", net, e.result, e.r.code)
    /\ UNCHANGED <<scope, ctor, thread, config>>

\* lease.break_lease()
break_lease(h, net) ==
    /\ Usable(h)
    /\ LET e == BreakEffect(handle[h], file, net)
       IN  /\ handle' = [handle EXCEPT ![h] = e.self]
           /\ file' = e.r.file
           /\ last' = Call(h, "break_lease", None, "none", e.r, e.result, e.ret, e.reqs)
           /\ trace' = Track(trace, h, "break_lease", net, e.result, e.r.code)
    /\ UNCHANGED <<scope, ctor, thread, config>>

\* A faulty variant of __enter__: entering the scope calls self.acquire().
EnterAcquires(h) ==
    /\ Usable(h)
    /\ scope[h] = "out"
    /\ scope' = [scope EXCEPT ![h] = "in"]
    /\ LET e == AcquireEffect(handle[h], file, "ok")
       IN  /\ handle' = [handle EXCEPT ![h] = e.self]
           /\ file' = e.r.file
           /\ last' = Call(h, "__enter__", None, "none", e.r, e.result, None, e.reqs)
           /\ trace' = Track(trace, h, "acquire_lease", "ok", e.result, e.r.code)
    /\ UNCHANGED <<ctor, thread, config>>

\* with lease: ... is entered; __enter__ returns self.
__enter__(h) ==
    /\ handle[h].st = "ok"
    /\ scope[h] = "out"
    /\ scope' = [scope EXCEPT ![h] = "in"]
    /\ last' = Call(h, "__enter__", None, "none", NoAnswer, "returned", None, <<>>)
    /\ UNCHANGED <<handle, file, ctor, trace, thread, config>>

\* A faulty variant of __exit__: it returns True, which suppresses the error of the body.
ExitSuppresses(h, body, net, echo) ==
    /\ Usable(h)
    /\ scope[h] = "in"
    /\ scope' = [scope EXCEPT ![h] = "out"]
    /\ LET e == ReleaseEffect(handle[h], file, net, echo)
       IN  /\ handle' = [handle EXCEPT ![h] = e.self]
           /\ file' = e.r.file
           /\ last' = Call(h, "__exit__", None, body, e.r, e.result, None, e.reqs)
           /\ trace' = Track(trace, h, "release_lease", net, e.result, e.r.code)
    /\ UNCHANGED <<ctor, thread, config>>

\* A faulty variant of __exit__: the lease is released only when the body completed.
ExitOnSuccessOnly(h, body, net, echo) ==
    /\ Usable(h)
    /\ scope[h] = "in"
    /\ scope' = [scope EXCEPT ![h] = "out"]
    /\ IF body = "raised"
       THEN /\ last' = Call(h, "__exit__", None, body, NoAnswer, "BodyError", None, <<>>)
            /\ UNCHANGED <<handle, file, trace>>
       ELSE LET e == ReleaseEffect(handle[h], file, net, echo)
            IN  /\ handle' = [handle EXCEPT ![h] = e.self]
                /\ file' = e.r.file
                /\ last' = Call(h, "__exit__", None, body, e.r, e.result, None, e.reqs)
                /\ trace' = Track(trace, h, "release_lease", net, e.result, e.r.code)
    /\ UNCHANGED <<ctor, thread, config>>

\* The with block is left, its body having completed or raised ("BodyError");
\* __exit__(*args) calls self.release() and returns None, so an error of the
\* body is not suppressed and an error of release replaces it.
__exit__(h, body, net, echo) ==
    /\ Usable(h)
    /\ scope[h] = "in"
    /\ scope' = [scope EXCEPT ![h] = "out"]
    /\ LET e == ReleaseEffect(handle[h], file, net, echo)
           result == IF e.result # "returned" THEN e.result
                     ELSE IF body = "raised" THEN "BodyError" ELSE "returned"
       IN  /\ handle' = [handle EXCEPT ![h] = e.self]
           /\ file' = e.r.file
           /\ last' = Call(h, "__exit__", None, body, e.r, result, None, e.reqs)
           /\ trace' = Track(trace, h, "release_lease", net, e.result, e.r.code)
    /\ UNCHANGED <<ctor, thread, config>>

\* Whether the release response carries a lease_id header matters only for
\* a request that was delivered.
Echoes(net) == IF net = "ok" THEN BOOLEAN ELSE {TRUE}

Next ==
    \/ \E h \in Handles, c \in Clients, id \in SuppliedIds : __init__(h, c, id)
    \/ \E h \in Handles, net \in Nets : acquire(h, net)
    \/ \E h \in Handles, net \in Nets : \E echo \in Echoes(net) : release(h, net, echo)
    \/ \E h \in Handles, p \in ProposedIds, net \in Nets : change(h, p, net)
    \/ \E h \in Handles, net \in Nets : break_lease(h, net)
    \/ \E h \in Handles : __enter__(h)
    \/ \E h \in Handles, body \in {"completed", "raised"}, net \in Nets :
          \E echo \in Echoes(net) : __exit__(h, body, net, echo)

Spec == Init /\ [][Next]_vars

---------------------------------------------------------------------------
(* One object shared by two callers: the statements of acquire and release *)
(* taken one at a time. The request is one step (the service handles it    *)
(* atomically); each assignment to a field of self is one step.            *)

\* The object both callers hold.
SharedHandle == CHOOSE h \in Handles : \A g \in Handles : h <= g

\* The order in which a call assigns the fields after its request returned.
WriteOrder(op) ==
    IF op = "acquire"
    THEN <<"id", "last_modified", "etag">>
    ELSE <<"etag", "id", "last_modified">>

\* self.<field> = response.get(...)
SetField(self, field, response) ==
    CASE field = "id" -> [self EXCEPT !.id = response.lease_id]
      [] field = "etag" -> [self EXCEPT !.etag = response.etag]
      [] field = "last_modified" -> [self EXCEPT !.last_modified = response.last_modified]

\* The caller's position once the request of op returned r: a raised error
\* leaves the call, a response is kept for the assignments that follow.
AfterRequest(op, r) ==
    IF r.raised = "none" THEN [op |-> op, at |-> 1, response |-> r.headers] ELSE Idle

InitShared ==
    /\ \E lease_id \in SuppliedIds :
          LET id == NewId(lease_id, Uuid(SharedHandle))
          IN  /\ handle = [h \in Handles |->
                     IF h = SharedHandle
                     THEN [st |-> "ok", id |-> id, etag |-> None, last_modified |-> None]
                     ELSE [st |-> "none"] @@ NoFields]
              /\ ctor = [h \in Handles |->
                     IF h = SharedHandle
                     THEN [generated |-> id # lease_id, id |-> id]
                     ELSE [generated |-> FALSE, id |-> None]]
    /\ scope = [h \in Handles |-> "out"]
    /\ file = [state |-> "Unleased", lease_id |-> None, rev |-> 0]
    /\ last = Call(0, "none", None, "none", NoAnswer, "returned", None, <<>>)
    /\ trace = Off
    /\ thread = [c \in Callers |-> Idle]
    /\ config = NoConfig

\* A faulty variant of acquire_call: the call waits until no other caller is
\* inside a call (a lock around the method).
AcquireCallLocked(c, net) ==
    /\ \A d \in Callers : thread[d].at = 0
    /\ file.rev < MaxRev
    /\ LET r == acquire_lease(file, handle[SharedHandle].id, net)
       IN  /\ file' = r.file
           /\ thread' = [thread EXCEPT ![c] = AfterRequest("acquire", r)]
    /\ UNCHANGED <<handle, scope, ctor, last, trace, config>>

\* Caller c enters acquire: the try block, which reads self.id and sends the
\* request.
acquire_call(c, net) ==
    /\ thread[c].at = 0
    /\ file.rev < MaxRev
    /\ LET r == acquire_lease(file, handle[SharedHandle].id, net)
       IN  /\ file' = r.file
           /\ thread' = [thread EXCEPT ![c] = AfterRequest("acquire", r)]
    /\ UNCHANGED <<handle, scope, ctor, last, trace, config>>

\* Caller c enters release: the try block, which reads self.id and sends the
\* request.
release_call(c, net, echo) ==
    /\ thread[c].at = 0
    /\ file.rev < MaxRev
    /\ LET r == release_lease(file, handle[SharedHandle].id, net, echo)
       IN  /\ file' = r.file
           /\ thread' = [thread EXCEPT ![c] = AfterRequest("release", r)]
    /\ UNCHANGED <<handle, scope, ctor, last, trace, config>>

\* Caller c executes its next assignment to a field of self; after the last
\* one the call returns.
field_write(c) ==
    /\ thread[c].at # 0
    /\ LET t == thread[c]
           order == WriteOrder(t.op)
       IN  /\ handle' = [handle EXCEPT ![SharedHandle] = SetField(@, order[t.at], t.response)]
           /\ thread' = [thread EXCEPT ![c] =
                  IF t.at = Len(order) THEN Idle ELSE [t EXCEPT !.at = @ + 1]]
    /\ UNCHANGED <<scope, file, ctor, last, trace, config>>

NextShared ==
    \/ \E c \in Callers, net \in Nets : acquire_call(c, net)
    \/ \E c \in Callers, net \in Nets : \E echo \in Echoes(net) : release_call(c, net, echo)
    \/ \E c \in Callers : field_write(c)

SpecShared == InitShared /\ [][NextShared]_vars

---------------------------------------------------------------------------
(* MediaServicesManagementClientConfiguration                              *)
(* (azure/mgmt/media/media_services_management_client.py)                  *)
(* A Python value is None or <<type, text>>.                               *)

Str(s) == <<"str", s>>

Object(name) == <<"object", name>>

\* base_url = 'https://management.azure.com'
DefaultBaseUrl == "https://management.azure.com"

\* Values passed as credentials: nothing, a credentials object, or any other
\* value (the constructor does not look at its type).
CredentialValues == {None, Object("cred-A"), Object("cred-B"), Str("")}

\* Values passed as subscription_id: nothing, strings (the empty one too),
\* and values of other types.
SubscriptionValues ==
    {None, Str("sub-1"), Str("sub-2"), Str(""), <<"int", "42">>, <<"bytes", "sub-1">>}

\* Values passed as base_url: omitted (None), empty, or a service URL.
BaseUrlValues ==
    {None, Str(""), Str(DefaultBaseUrl), Str("https://example.org"),
     Str("https://management.chinacloudapi.cn")}

\* isinstance(x, str)
IsInstanceStr(x) == x # None /\ x[1] = "str"

\* not x, for None and for strings
Not(x) == x = None \/ x = Str("")

\* An attribute that was never assigned.
Unset == <<"unset", "">>

\* The attributes of a configuration none of which has been assigned.
NoAttrs == [base_url |-> Unset, credentials |-> Unset, subscription_id |-> Unset]

\* A faulty variant of Configuration: the type of subscription_id is
\* checked before anything else.
ConfigurationTypeFirst(credentials, subscription_id, base_url) ==
    IF ~IsInstanceStr(subscription_id)
    THEN [raised |-> "TypeError", self |-> NoAttrs]
    ELSE IF credentials = None
    THEN [raised |-> "ValueError", self |-> NoAttrs]
    ELSE [raised |-> "none",
          self |-> [base_url |-> IF Not(base_url) THEN Str(DefaultBaseUrl) ELSE base_url,
                    credentials |-> credentials,
                    subscription_id |-> subscription_id]]

\* MediaServicesManagementClientConfiguration(credentials, subscription_id,
\* base_url): the statements of __init__ in their order; the base class
\* keeps the base_url it is given.
Configuration(credentials, subscription_id, base_url) ==
    IF credentials = None
    THEN [raised |-> "ValueError", self |-> NoAttrs]
    ELSE IF subscription_id = None
    THEN [raised |-> "ValueError", self |-> NoAttrs]
    ELSE IF ~IsInstanceStr(subscription_id)
    THEN [raised |-> "TypeError", self |-> NoAttrs]
    ELSE LET url == IF Not(base_url) THEN Str(DefaultBaseUrl) ELSE base_url
             s1 == [NoAttrs EXCEPT !.base_url = url]
             s2 == [s1 EXCEPT !.credentials = credentials]
             s3 == [s2 EXCEPT !.subscription_id = subscription_id]
         IN  [raised |-> "none", self |-> s3]

\* The arguments of one construction, drawn before it runs.
InitConfig ==
    /\ handle = [h \in Handles |-> [st |-> "none"] @@ NoFields]
    /\ scope = [h \in Handles |-> "out"]
    /\ file = [state |-> "Unleased", lease_id |-> None, rev |-> 0]
    /\ ctor = [h \in Handles |-> [generated |-> FALSE, id |-> None]]
    /\ last = Call(0, "none", None, "none", NoAnswer, "returned", None, <<>>)
    /\ trace = <<>>
    /\ thread = [c \in Callers |-> Idle]
    /\ \E credentials \in CredentialValues, subscription_id \in SubscriptionValues,
          base_url \in BaseUrlValues :
          config = [pc |-> "args", credentials |-> credentials,
                    subscription_id |-> subscription_id, base_url |-> base_url]

\* config = MediaServicesManagementClientConfiguration(credentials,
\* subscription_id, base_url)
NewConfiguration ==
    /\ config.pc = "args"
    /\ LET made == Configuration(config.credentials, config.subscription_id, config.base_url)
       IN  config' = [pc |-> "configuration", args |-> config,
                      raised |-> made.raised, self |-> made.self]
    /\ UNCHANGED <<handle, scope, file, ctor, last, trace, thread>>

\* MediaServicesManagementClient(credentials, subscription_id, base_url):
\* self.config is the configuration made from the same arguments; an error
\* raised while making it leaves the client's constructor.
NewClient ==
    /\ config.pc = "args"
    /\ LET made == Configuration(config.credentials, config.subscription_id, config.base_url)
       IN  config' = [pc |-> "client", args |-> config,
                      raised |-> made.raised, self |-> made.self]
    /\ UNCHANGED <<handle, scope, file, ctor, last, trace, thread>>

NextConfig ==
    \/ NewConfiguration
    \/ NewClient

SpecConfig == InitConfig /\ [][NextConfig]_vars

---------------------------------------------------------------------------
(* Properties                                                              *)

Fields(self) == [id |-> self.id, etag |-> self.etag, last_modified |-> self.last_modified]

Truthy(lease_id) == lease_id # None /\ lease_id # Some("")

\* The calls that make a remote request.
RemoteOps == {"acquire", "release", "change", "break_lease", "__exit__"}

\* The calls that write the fields from the response.
WritingOps == {"acquire", "release", "change", "__exit__"}

Names(t) == [i \in 1 .. Len(t) |-> t[i].name]

IsPrefix(s, t) == Len(s) <= Len(t) /\ \A i \in 1 .. Len(s) : s[i] = t[i]

\* C1 (as stated): entering the scope issues the remote acquire request and,
\* when that succeeds, the file is Leased under the handle's id.
C1_EnterAcquires ==
    last.op = "__enter__" =>
        /\ \E i \in 1 .. Len(last.reqs) : last.reqs[i].name = "acquire_lease"
        /\ last.result = "returned" =>
               file.state = "Leased" /\ file.lease_id = handle[last.h].id

\* C1 (amended): entering the scope only returns the handle: no remote
\* request is issued and neither the handle's fields nor the file's lease
\* change; leaving the scope issues a release request and, when the service
\* accepts it, the file is Unleased.
C1_EnterReturnsSelfExitReleases ==
    [][/\ last'.op = "__enter__" =>
              /\ last'.reqs = <<>>
              /\ last'.result = "returned"
              /\ handle' = handle
              /\ file' = file
              /\ scope'[last'.h] = "in"
       /\ last'.op = "__exit__" =>
              /\ Len(last'.reqs) = 1
              /\ last'.reqs[1].name = "release_lease"
              /\ last'.raised = "none" => file'.state = "Unleased"
              /\ scope'[last'.h] = "out"]_vars

\* C1 witness: a scope has been entered and the file is still unleased.
C1_Witness ==
    /\ last.op = "__enter__"
    /\ scope[last.h] = "in"
    /\ file.state = "Unleased"
    /\ handle[last.h].etag = None

\* C2: on every exit path (the body completed or raised) __exit__ issues
\* exactly one remote request, a release carrying the id the handle holds
\* when the scope is left.
C2_ExitReleasesOnce ==
    [][last'.op = "__exit__" =>
           /\ last'.body \in {"completed", "raised"}
           /\ last'.reqs = <<Request("release_lease", handle[last'.h].id, None)>>]_vars

\* C2 witness: a scope whose body raised was left and the release went out.
C2_Witness ==
    /\ last.op = "__exit__"
    /\ last.body = "raised"
    /\ Len(last.reqs) = 1
    /\ last.raised = "none"
    /\ file.state = "Unleased"

\* C3 (as stated): the id of a constructed handle is never None and never
\* the empty string.
C3_IdNonEmpty ==
    \A h \in Handles :
        handle[h].st = "ok" => handle[h].id # None /\ handle[h].id # Some("")

\* C4: when the remote call of acquire, release or change fails with a
\* storage error, the call raises the domain lease error and id, etag and
\* last_modified are what they were; a delivered change proposing an id that
\* is not a GUID fails so.
C4_FailureKeepsFields ==
    [][/\ (last'.op \in WritingOps /\ last'.raised = "StorageErrorException") =>
              /\ last'.result = "DomainLeaseError"
              /\ Fields(handle'[last'.h]) = Fields(handle[last'.h])
       /\ (/\ last'.op = "change"
           /\ last'.arg = Some(InvalidId)
           /\ last'.raised # "ServiceRequestError") =>
              last'.raised = "StorageErrorException"]_vars

\* C4 witness: a handle holding the lease called change with an id that is
\* not a GUID and got the domain lease error.
C4_Witness ==
    /\ last.op = "change"
    /\ last.arg = Some(InvalidId)
    /\ last.code = "InvalidHeaderValue"
    /\ last.result = "DomainLeaseError"
    /\ file.state = "Leased"
    /\ handle[last.h].id = file.lease_id

\* C5 (as stated): whatever the transport call raises, the caller gets a
\* domain lease error.
C5_EveryErrorTranslated ==
    (last.op \in RemoteOps /\ last.raised # "none") =>
        last.result = "DomainLeaseError"

\* C5 (amended): a StorageErrorException of the transport call reaches the
\* caller as a domain lease error, any other error of the transport call
\* reaches the caller as it is, and no call returns normally after its
\* transport call failed.
C5_StorageErrorTranslated ==
    last.op \in RemoteOps =>
        /\ last.raised = "StorageErrorException" => last.result = "DomainLeaseError"
        /\ last.raised \notin {"none", "StorageErrorException"} =>
               last.result = last.raised
        /\ last.raised # "none" => last.result \notin {"returned", "BodyError"}

\* C5 witness: break_lease timed out below HTTP and the caller got that error.
C5_Witness ==
    /\ last.op = "break_lease"
    /\ last.raised = "ServiceRequestError"
    /\ last.result = "ServiceRequestError"

\* C6: break_lease leaves id, etag and last_modified alone whether it
\* succeeds or fails, and on success returns the lease time of the response.
C6_BreakKeepsFields ==
    [][last'.op = "break_lease" =>
           /\ handle' = handle
           /\ last'.raised = "none" =>
                  /\ last'.result = "returned"
                  /\ last'.ret = last'.headers.lease_time
                  /\ last'.ret # None]_vars

\* C6 witness: a handle that holds the lease broke it; its fields are those
\* of its acquire.
C6_Witness ==
    /\ last.op = "break_lease"
    /\ last.result = "returned"
    /\ last.ret = Some(0)
    /\ file.state = "Broken"
    /\ handle[last.h].id = file.lease_id
    /\ handle[last.h].etag # None
    /\ handle[last.h].etag # last.headers.etag

\* C7: between calls, etag and last_modified of a handle are both None or
\* both from one response, and after a successful acquire, release or change
\* they are the two values of that call's response.
C7_TagAndTimeTogether ==
    /\ \A h \in Handles :
           \/ handle[h].etag = None /\ handle[h].last_modified = None
           \/ \E n \in 1 .. MaxRev :
                  handle[h].etag = ETag(n) /\ handle[h].last_modified = Time(n)
    /\ (last.op \in WritingOps /\ last.raised = "none") =>
           /\ handle[last.h].etag = last.headers.etag
           /\ handle[last.h].last_modified = last.headers.last_modified
           /\ handle[last.h].etag = ETag(file.rev)

\* C7 witness: a release succeeded on a handle that had acquired before.
C7_Witness ==
    /\ last.op = "release"
    /\ last.raised = "none"
    /\ file.rev >= 2
    /\ handle[last.h].etag = ETag(file.rev)

\* C8: on an unleased file that one handle alone works on, acquire, release,
\* acquire succeed one after the other, and after each acquire the handle's
\* id is the id under which the service holds the lease.
C8_AcquireReleaseAcquire ==
    (/\ trace # Off
     /\ Len(trace) >= 1
     /\ IsPrefix(Names(trace), <<"acquire_lease", "release_lease", "acquire_lease">>)) =>
        /\ \A i \in 1 .. Len(trace) : trace[i].result = "returned"
        /\ Len(trace) \in {1, 3} =>
               /\ file.state = "Leased"
               /\ handle[trace[1].h].id = file.lease_id
               /\ handle[trace[1].h].id # None

\* C8 witness: the second acquire succeeded, under an id the service made
\* because the release response carried none.
C8_Witness ==
    /\ trace # Off
    /\ Names(trace) = <<"acquire_lease", "release_lease", "acquire_lease">>
    /\ trace[3].result = "returned"
    /\ handle[trace[1].h].id # ctor[trace[1].h].id

\* C9: for a handle constructed without an identifier on an unleased file,
\* acquire succeeds and leaves the id the service returned and a
\* last_modified; release then succeeds; a second release right after raises
\* the domain lease error of a file without an active lease.
C9_SecondReleaseFails ==
    (/\ trace # Off
     /\ Len(trace) >= 1
     /\ ctor[trace[1].h].generated
     /\ IsPrefix(Names(trace), <<"acquire_lease", "release_lease", "release_lease">>)) =>
        /\ trace[1].result = "returned"
        /\ Len(trace) = 1 =>
               /\ handle[trace[1].h].id = file.lease_id
               /\ handle[trace[1].h].id = ctor[trace[1].h].id
               /\ handle[trace[1].h].last_modified = Time(file.rev)
        /\ Len(trace) >= 2 => trace[2].result = "returned"
        /\ Len(trace) = 3 =>
               /\ trace[3].result = "DomainLeaseError"
               /\ trace[3].code = "LeaseNotPresent"

\* C9 witness: the second release of such a handle was refused.
C9_Witness ==
    /\ trace # Off
    /\ Names(trace) = <<"acquire_lease", "release_lease", "release_lease">>
    /\ ctor[trace[1].h].generated
    /\ trace[3].code = "LeaseNotPresent"
    /\ file.state = "Unleased"

C11_ConstructionTypeError ==
    [][last'.op = "__init__" =>
           IF last'.client = "ShareFileClient"
           THEN last'.result = "returned" /\ handle'[last'.h].st = "ok"
           ELSE /\ last'.result = "TypeError"
                /\ handle'[last'.h].st = "none"
                /\ handle' = handle
                /\ ctor' = ctor]_vars

\* C11 witness: a construction over a ShareClient raised TypeError and the
\* handle does not exist.
C11_Witness ==
    /\ last.op = "__init__"
    /\ last.client = "ShareClient"
    /\ last.result = "TypeError"
    /\ handle[last.h].st = "none"

\* C12: after a successful acquire etag and last_modified are both present,
\* and a successful release of a handle that holds both leaves both present
\* and different from what the handle held until then.
C12_ReleaseChangesTagAndTime ==
    [][/\ (last'.op = "acquire" /\ last'.raised = "none") =>
              /\ handle'[last'.h].etag # None
              /\ handle'[last'.h].last_modified # None
       /\ (/\ last'.op \in {"release", "__exit__"}
           /\ last'.raised = "none"
           /\ handle[last'.h].etag # None
           /\ handle[last'.h].last_modified # None) =>
              /\ handle'[last'.h].etag # None
              /\ handle'[last'.h].last_modified # None
              /\ handle'[last'.h].etag # handle[last'.h].etag
              /\ handle'[last'.h].last_modified # handle[last'.h].last_modified]_vars

\* C12 witness: one handle acquired and then released; its etag and
\* last_modified are those of the release.
C12_Witness ==
    /\ trace # Off
    /\ Names(trace) = <<"acquire_lease", "release_lease">>
    /\ \A i \in 1 .. 2 : trace[i].result = "returned"
    /\ handle[trace[1].h].etag = ETag(2)
    /\ handle[trace[1].h].last_modified = Time(2)

\* Whether the request of the last call reached the service and was answered
\* on the lease's state (no time-out, no error status unrelated to the lease).
Delivered(call) == call.raised # "ServiceRequestError" /\ call.code # "ServerError"

\* C13: a delivered break_lease on a file without an active lease does not
\* raise, returns 0 and leaves the file's lease as it is; every normal return
\* of break_lease is a non-negative integer, and it is 0 for a lease a handle
\* acquired (always of infinite duration).
C13_BreakReturnsLeaseTime ==
    [][last'.op = "break_lease" =>
           /\ (file.state # "Leased" /\ Delivered(last')) =>
                  /\ last'.result = "returned"
                  /\ last'.ret = Some(0)
                  /\ file' = file
           /\ last'.result = "returned" =>
                  /\ last'.ret # None
                  /\ last'.ret[1] \in Nat
           /\ (last'.result = "returned" /\ file.state = "Leased") =>
                  /\ last'.ret = Some(0)
                  /\ last'.reqs[1].name = "break_lease"
                  /\ file'.state = "Broken"]_vars

\* C13 witness: break_lease returned 0 on a file that was never leased.
C13_Witness ==
    /\ last.op = "break_lease"
    /\ last.result = "returned"
    /\ last.ret = Some(0)
    /\ file.state = "Unleased"
    /\ file.rev = 0

\* C14: a successful change(newLeaseId), made by a handle whose id is that of
\* the active lease, leaves the handle's id equal to newLeaseId and the file
\* Leased under newLeaseId; the file is Leased before and after the request,
\* which the service applies in one step.
C14_ChangeSwitchesId ==
    [][(last'.op = "change" /\ last'.raised = "none") =>
           /\ file.state = "Leased"
           /\ handle[last'.h].id = file.lease_id
           /\ last'.reqs = <<Request("change_lease", file.lease_id, last'.arg)>>
           /\ handle'[last'.h].id = last'.arg
           /\ file'.state = "Leased"
           /\ file'.lease_id = last'.arg
           /\ file'.rev = file.rev + 1]_vars

\* C14 witness: a change to "lease-B" succeeded.
C14_Witness ==
    /\ last.op = "change"
    /\ last.result = "returned"
    /\ last.arg = Some("lease-B")
    /\ handle[last.h].id = Some("lease-B")
    /\ file.state = "Leased"
    /\ file.lease_id = Some("lease-B")

\* C15: a delivered break_lease breaks an active lease whatever the id of
\* the handle that calls it (the request carries no lease id); while the
\* lease is broken every release and change fails, with the domain lease
\* error when the request was delivered, and only a successful acquire ends
\* the broken state.
C15_BrokenUntilAcquire ==
    [][/\ (last'.op = "break_lease" /\ file.state = "Leased" /\ Delivered(last')) =>
              /\ last'.reqs = <<Request("break_lease", None, None)>>
              /\ last'.result = "returned"
              /\ file'.state = "Broken"
       /\ (file.state = "Broken" /\ last'.op \in {"release", "change", "__exit__"}) =>
              /\ last'.raised # "none"
              /\ last'.result \notin {"returned", "BodyError"}
              /\ Delivered(last') => last'.result = "DomainLeaseError"
              /\ file' = file
              /\ Fields(handle'[last'.h]) = Fields(handle[last'.h])
       /\ (file.state = "Broken" /\ file'.state # "Broken") =>
              /\ last'.op = "acquire"
              /\ last'.raised = "none"
              /\ file'.state = "Leased"]_vars

\* C15 witness: the lease of one handle is broken, beside a second handle
\* with another id, and the release that the holder made with the old id was
\* refused.
C15_Witness ==
    /\ last.op = "release"
    /\ last.result = "DomainLeaseError"
    /\ last.code = "LeaseNotPresent"
    /\ file.state = "Broken"
    /\ handle[last.h].id = file.lease_id
    /\ \E k \in Handles \ {last.h} :
           /\ handle[k].st = "ok"
           /\ handle[k].id # file.lease_id
           /\ handle[k].etag = None
    /\ handle[last.h].etag = ETag(1)
    /\ file.rev = 2

\* C16: with two handles on one file and their calls interleaved in any
\* order, the file is leased under one id at a time: a delivered acquire on
\* a file Leased under another id than the handle's fails with the conflict
\* error and leaves the handle's fields and the lease alone, one by a handle
\* whose id is the active id succeeds and keeps that id, and after any
\* successful acquire the service holds the lease under the caller's id.
C16_OneLeaseAtATime ==
    [][last'.op = "acquire" =>
           /\ last'.reqs = <<Request("acquire_lease", handle[last'.h].id, handle[last'.h].id)>>
           /\ (file.state = "Leased" /\ Delivered(last')) =>
                  IF handle[last'.h].id = file.lease_id
                  THEN /\ last'.result = "returned"
                       /\ file'.lease_id = file.lease_id
                  ELSE /\ last'.result = "DomainLeaseError"
                       /\ last'.code = "LeaseAlreadyPresent"
                       /\ Fields(handle'[last'.h]) = Fields(handle[last'.h])
                       /\ file' = file
           /\ last'.result = "returned" =>
                  /\ file'.state = "Leased"
                  /\ file'.lease_id # None
                  /\ handle'[last'.h].id = file'.lease_id]_vars

\* C16 witness: one handle holds the lease and the acquire of the other,
\* which has another id, was refused with the conflict error.
C16_Witness ==
    /\ last.op = "acquire"
    /\ last.result = "DomainLeaseError"
    /\ last.code = "LeaseAlreadyPresent"
    /\ file.state = "Leased"
    /\ handle[last.h].id # file.lease_id
    /\ \E k \in Handles \ {last.h} :
           handle[k].id = file.lease_id /\ handle[k].etag = ETag(file.rev)

\* The transport operation each method calls.
RequestOf(op) ==
    CASE op = "acquire" -> "acquire_lease"
      [] op \in {"release", "__exit__"} -> "release_lease"
      [] op = "change" -> "change_lease"
      [] op = "break_lease" -> "break_lease"

\* C17: every call of acquire, release, change or break_lease issues exactly
\* one remote request, failed or not, and the file's lease changes by nothing
\* else; construction and scope entry issue none and leave the file alone.
C17_OneRequestPerCall ==
    [][/\ last'.op \in RemoteOps =>
              /\ Len(last'.reqs) = 1
              /\ last'.reqs[1].name = RequestOf(last'.op)
              /\ file'.rev \in {file.rev, file.rev + 1}
       /\ last'.op \in {"__init__", "__enter__"} =>
              /\ last'.reqs = <<>>
              /\ file' = file
       /\ file' # file => (last'.op \in RemoteOps /\ last'.raised = "none")]_vars

\* C17 witness: an acquire was refused by the service and one request was made.
C17_Witness ==
    /\ last.op = "acquire"
    /\ last.raised = "StorageErrorException"
    /\ last.result = "DomainLeaseError"
    /\ Len(last.reqs) = 1

\* C19: when the release made by __exit__ succeeds, an error raised by the
\* body of the scope leaves the scope (it is not suppressed) and a body that
\* completed leaves it normally; when that release fails with a storage
\* error, the domain lease error leaves the scope.
C19_ExitPropagatesErrors ==
    last.op = "__exit__" =>
        /\ (last.raised = "none" /\ last.body = "raised") => last.result = "BodyError"
        /\ (last.raised = "none" /\ last.body = "completed") => last.result = "returned"
        /\ last.raised = "StorageErrorException" => last.result = "DomainLeaseError"

\* C19 witness: the body raised, the release succeeded and the body's error
\* left the scope.
C19_Witness ==
    /\ last.op = "__exit__"
    /\ last.body = "raised"
    /\ last.raised = "none"
    /\ last.result = "BodyError"
    /\ scope[last.h] = "out"

\* The revision of the response a tag or a time came from.
RevOf(x) == x[2]

\* C18: the object has no synchronization: a caller that is not inside a
\* call can always send the request of acquire or of release, and a caller
\* that is inside a call can always make its next assignment, whatever the
\* position of the other caller between its own assignments.
C18_NoSynchronization ==
    \A c \in Callers :
        /\ (thread[c].at = 0 /\ file.rev < MaxRev) =>
               /\ ENABLED acquire_call(c, "ok")
               /\ ENABLED release_call(c, "ok", TRUE)
        /\ thread[c].at # 0 => ENABLED field_write(c)

\* C18 witness: both callers returned from successful calls on the shared
\* object and its etag and last_modified are from different responses.
C18_Witness ==
    /\ \A c \in Callers : thread[c].at = 0
    /\ handle[SharedHandle].etag # None
    /\ handle[SharedHandle].last_modified # None
    /\ RevOf(handle[SharedHandle].etag) # RevOf(handle[SharedHandle].last_modified)

\* C20: constructing a configuration checks its arguments in this order
\* before any attribute is assigned: credentials None gives ValueError; else
\* subscription_id None gives ValueError; else subscription_id not a str
\* gives TypeError; otherwise the construction succeeds with credentials and
\* subscription_id kept as given and base_url the default when it was None
\* or empty, and as given otherwise.
C20_ValidationOrder ==
    config.pc \in {"configuration", "client"} =>
        LET a == config.args
        IN  IF a.credentials = None
            THEN config.raised = "ValueError" /\ config.self = NoAttrs
            ELSE IF a.subscription_id = None
            THEN config.raised = "ValueError" /\ config.self = NoAttrs
            ELSE IF a.subscription_id[1] # "str"
            THEN config.raised = "TypeError" /\ config.self = NoAttrs
            ELSE /\ config.raised = "none"
                 /\ config.self.credentials = a.credentials
                 /\ config.self.subscription_id = a.subscription_id
                 /\ config.self.base_url =
                        IF a.base_url \in {None, Str("")}
                        THEN Str("https://management.azure.com")
                        ELSE a.base_url

\* C20 witness: credentials were None and subscription_id was not a str,
\* and the construction ended with the ValueError of the first check.
C20_Witness ==
    /\ config.pc = "configuration"
    /\ config.args.credentials = None
    /\ config.args.subscription_id = <<"int", "42">>
    /\ config.raised = "ValueError"

====
